---------------------------- MODULE Spec2Model ----------------------------
(***************************************************************************)
(* A model of streamlit_app.py, the French Bakery Sales & Inventory        *)
(* Tracker: one Streamlit script, run top to bottom by every session on    *)
(* every interaction, over one Snowflake table SALES.                      *)
(*                                                                         *)
(* Text is a sequence of one-character strings, so that strip() and        *)
(* upper() are computed.  A pandas Timestamp is a number of minutes        *)
(* (1440 * day-of-2024 + minute of the day); the store keeps a DATE as its *)
(* ISO text.  Money is kept in cents.  A cell that may be NaN, NaT, None   *)
(* or NULL is a record [na, v].                                            *)
(***************************************************************************)
EXTENDS Integers, Sequences, FiniteSets, TLC

VARIABLES
    store,      \* the rows of table SALES, in insertion order
    cache,      \* the memo of load_data kept by st.cache_data
    pc,         \* pc[s]: where session s stands in its run of the script
    df,         \* df[s]: the result of load_data() in the run of s
    view,       \* view[s]: filtered_df, the KPIs, the charts and the export
    file,       \* file[s]: the uploaded CSV, as rows of text cells
    new_sales,  \* new_sales[s]: the data frame of the upload block
    idx,        \* idx[s]: the row the upload loop is at
    msg,        \* msg[s]: the count of the st.success message of the upload
    low,        \* low[s]: low_stock_df as displayed
    created,    \* created[s]: index labels of new_sales whose MERGE inserted
    raced,      \* keys two sessions held pending while absent from the store
    ingested,   \* an upload loop has run to its end
    store0,     \* the table as it was at the start
    batch0,     \* the CSV that is uploaded again and again (SpecIngest)
    runs        \* script runs started so far

vars == <<store, cache, pc, df, view, file, new_sales, idx, msg, low,
          created, raced, ingested, store0, batch0, runs>>

---------------------------------------------------------------------------
(* Bounds *)

MaxBatch == 2
MaxRuns == 2
MaxReruns == 3
MaxDay == 2

Sessions == {"s1", "s2"}

---------------------------------------------------------------------------
(* Cells and text *)

Val(x) == [na |-> FALSE, v |-> x]
NaText == [na |-> TRUE, v |-> <<>>]
NaNum == [na |-> TRUE, v |-> 0]
NaT == [na |-> TRUE, v |-> 0]
NaStr == [na |-> TRUE, v |-> ""]

UpperChar(c) ==
    CASE c = "a" -> "A"
      [] c = "b" -> "B"
      [] c = "n" -> "N"
      [] c = "o" -> "O"
      [] c = "e" -> "E"
      [] OTHER -> c

\* str.upper()
Upper(t) == [i \in 1..Len(t) |-> UpperChar(t[i])]

IsSpace(c) == c = " "

RECURSIVE LStrip(_)
LStrip(t) == IF t # <<>> /\ IsSpace(Head(t)) THEN LStrip(Tail(t)) ELSE t

RECURSIVE RStrip(_)
RStrip(t) ==
    IF t # <<>> /\ IsSpace(t[Len(t)]) THEN RStrip(SubSeq(t, 1, Len(t) - 1)) ELSE t

\* str.strip()
Strip(t) == RStrip(LStrip(t))

\* astype(str) of an object column: str(nan) for a NaN of read_csv, str(None)
\* for a NULL of the store
AsStr(cell, nul) == IF cell.na THEN nul ELSE cell.v

StrNaN == <<"n", "a", "n">>
StrNone == <<"N", "o", "n", "e">>

\* .astype(str).str.strip().str.upper()
CleanProduct(cell, nul) == Val(Upper(Strip(AsStr(cell, nul))))

DigitVal(c) ==
    CASE c = "0" -> 0 [] c = "1" -> 1 [] c = "2" -> 2 [] c = "3" -> 3
      [] c = "4" -> 4 [] c = "5" -> 5 [] c = "6" -> 6 [] c = "7" -> 7
      [] c = "8" -> 8 [] c = "9" -> 9

RECURSIVE DigitsVal(_)
DigitsVal(t) ==
    IF t = <<>> THEN 0
    ELSE DigitsVal(SubSeq(t, 1, Len(t) - 1)) * 10 + DigitVal(t[Len(t)])

DotPos(t) ==
    IF \E i \in 1..Len(t) : t[i] = "."
    THEN CHOOSE i \in 1..Len(t) : t[i] = "." /\ \A j \in 1..(i - 1) : t[j] # "."
    ELSE Len(t) + 1

\* The value, in cents, of a decimal numeral with at most two decimals.
ParseDecimal(t) ==
    LET p == DotPos(t)
        whole == SubSeq(t, 1, p - 1)
        frac == SubSeq(t, p + 1, Len(t))
    IN  DigitsVal(whole) * 100
        + (IF Len(frac) = 0 THEN 0
           ELSE IF Len(frac) = 1 THEN DigitVal(frac[1]) * 10
           ELSE DigitsVal(SubSeq(frac, 1, 2)))

---------------------------------------------------------------------------
(* Dates *)

Days == 1..MaxDay

\* str(date): the ISO text of the d-th day of 2024.
IsoDate(d) ==
    CASE d = 1 -> "2024-01-01"
      [] d = 2 -> "2024-01-02"
      [] d = 3 -> "2024-01-03"
      [] d = 4 -> "2024-01-04"
      [] OTHER -> "2024-01-05"

Midnight(d) == d * 1440

\* pd.to_datetime(text, errors="coerce") of one cell
ParseDate(cell) ==
    IF cell.na THEN NaT
    ELSE IF \E d \in 1..5 : cell.v = IsoDate(d)
         THEN Val(Midnight(CHOOSE d \in 1..5 : cell.v = IsoDate(d)))
    ELSE IF cell.v = "2024-01-01 09:00" THEN Val(Midnight(1) + 540)
    ELSE IF cell.v = "2024-01-01 17:30" THEN Val(Midnight(1) + 1050)
    ELSE IF cell.v = "2024-01-02 09:00" THEN Val(Midnight(2) + 540)
    ELSE NaT

\* Timestamp.date(), formatted into the statement by the f-string
DateOf(ts) == IsoDate(ts \div 1440)

\* Timestamp.isocalendar().week: 2024-01-01 is the Monday of ISO week 1
IsoWeek(ts) == (((ts \div 1440) - 1) \div 7) + 1

---------------------------------------------------------------------------
(* The table SALES and the MERGE statement *)

\* ON t.SALE_DATE = s.SALE_DATE AND t.PRODUCT = s.PRODUCT AND
\* t.QUANTITY = s.QUANTITY AND t.UNIT_PRICE = s.UNIT_PRICE (a NULL equals nothing)
Matches(t, s) ==
    /\ ~t.SALE_DATE.na /\ t.SALE_DATE.v = s.SALE_DATE
    /\ ~t.PRODUCT.na /\ t.PRODUCT.v = s.PRODUCT
    /\ ~t.QUANTITY.na /\ t.QUANTITY.v = s.QUANTITY
    /\ ~t.UNIT_PRICE.na /\ t.UNIT_PRICE.v = s.UNIT_PRICE

Matched(st, s) == \E i \in 1..Len(st) : Matches(st[i], s)

\* INSERT (SALE_DATE, PRODUCT, QUANTITY, UNIT_PRICE, STOCK_QUANTITY) VALUES (...)
Inserted(st, s) ==
    Append(st, [SALE_ID |-> Len(st) + 1,
                SALE_DATE |-> Val(s.SALE_DATE),
                PRODUCT |-> Val(s.PRODUCT),
                QUANTITY |-> Val(s.QUANTITY),
                UNIT_PRICE |-> Val(s.UNIT_PRICE),
                STOCK_QUANTITY |-> s.STOCK_QUANTITY])

\* A plain INSERT in the place of the MERGE
MergeAlways(st, s) == Inserted(st, s)

\* A MERGE with a WHEN MATCHED THEN UPDATE SET STOCK_QUANTITY = 0 branch
MergeUpsert(st, s) ==
    IF Matched(st, s)
    THEN [i \in 1..Len(st) |->
            IF Matches(st[i], s) THEN [st[i] EXCEPT !.STOCK_QUANTITY = s.STOCK_QUANTITY]
            ELSE st[i]]
    ELSE Inserted(st, s)

\* MERGE INTO SALES t USING (SELECT ...) s ON ... WHEN NOT MATCHED THEN INSERT
Merge(st, s) == IF Matched(st, s) THEN st ELSE Inserted(st, s)

\* The statement of the manual entry, with VALUES (..., 0)
FormStatement(sale_date, product, quantity, unit_price) ==
    [SALE_DATE |-> IsoDate(sale_date), PRODUCT |-> product,
     QUANTITY |-> quantity, UNIT_PRICE |-> unit_price, STOCK_QUANTITY |-> 0]

\* The loop's statement with the row's STOCK_QUANTITY in VALUES
UploadStatementWithStock(row) ==
    [SALE_DATE |-> DateOf(row.SALE_DATE.v), PRODUCT |-> row.PRODUCT.v,
     QUANTITY |-> row.QUANTITY.v, UNIT_PRICE |-> row.UNIT_PRICE.v,
     STOCK_QUANTITY |-> IF row.STOCK_QUANTITY.na THEN 0 ELSE row.STOCK_QUANTITY.v]

\* The statement of one row of the upload loop, with VALUES (..., 0)
UploadStatement(row) ==
    [SALE_DATE |-> DateOf(row.SALE_DATE.v), PRODUCT |-> row.PRODUCT.v,
     QUANTITY |-> row.QUANTITY.v, UNIT_PRICE |-> row.UNIT_PRICE.v,
     STOCK_QUANTITY |-> 0]

---------------------------------------------------------------------------
(* Data frames *)

\* dropna(subset=["SALE_DATE", "PRODUCT", "QUANTITY", "UNIT_PRICE"])
DropNa(rows) ==
    SelectSeq(rows, LAMBDA r : ~r.SALE_DATE.na /\ ~r.PRODUCT.na
                                /\ ~r.QUANTITY.na /\ ~r.UNIT_PRICE.na)

\* The values drop_duplicates compares
SubsetOf(r) == <<r.SALE_DATE.v, r.PRODUCT.v, r.QUANTITY.v, r.UNIT_PRICE.v>>

RECURSIVE KeepFirst(_, _)
KeepFirst(rows, seen) ==
    IF rows = <<>> THEN <<>>
    ELSE IF SubsetOf(Head(rows)) \in seen THEN KeepFirst(Tail(rows), seen)
    ELSE <<Head(rows)>> \o KeepFirst(Tail(rows), seen \cup {SubsetOf(Head(rows))})

\* drop_duplicates(subset=[...]), keep="first"
DropDuplicates(rows) == KeepFirst(rows, {})

\* session.sql(query).to_pandas() and the cleaning of load_data
LoadData(st) ==
    LET frame == [i \in 1..Len(st) |->
                    [st[i] EXCEPT !.SALE_DATE = ParseDate(st[i].SALE_DATE),
                                  !.PRODUCT = CleanProduct(st[i].PRODUCT, StrNone)]]
    IN  DropDuplicates(DropNa(frame))

\* pd.read_csv: an empty cell is NaN, a numeral is a number
ReadCsv(f) ==
    [i \in 1..Len(f) |->
        [index |-> i - 1,
         SALE_DATE |-> IF f[i].SALE_DATE = "" THEN NaStr ELSE Val(f[i].SALE_DATE),
         PRODUCT |-> IF f[i].PRODUCT = <<>> THEN NaText ELSE Val(f[i].PRODUCT),
         QUANTITY |-> IF f[i].QUANTITY = <<>> THEN NaNum
                      ELSE Val(DigitsVal(f[i].QUANTITY)),
         UNIT_PRICE |-> IF f[i].UNIT_PRICE = <<>> THEN NaNum
                        ELSE Val(ParseDecimal(f[i].UNIT_PRICE)),
         STOCK_QUANTITY |-> IF f[i].STOCK_QUANTITY = <<>> THEN NaNum
                            ELSE Val(DigitsVal(f[i].STOCK_QUANTITY))]]

\* Lines 191-202: read_csv, to_datetime, the product clean-up and dropna
Cleaned(f) ==
    LET raw == ReadCsv(f)
        frame == [i \in 1..Len(raw) |->
                    [raw[i] EXCEPT !.SALE_DATE = ParseDate(raw[i].SALE_DATE),
                                   !.PRODUCT = CleanProduct(raw[i].PRODUCT, StrNaN)]]
    IN  DropNa(frame)

\* new_sales as the loop reads it: lines 191-207
NewSales(f) == DropDuplicates(Cleaned(f))

---------------------------------------------------------------------------
(* Filters, KPIs, charts and the export *)

DfColumns ==
    <<"SALE_ID", "SALE_DATE", "PRODUCT", "QUANTITY", "UNIT_PRICE", "STOCK_QUANTITY">>

LowStockThreshold == 10

\* sorted(df["PRODUCT"].unique()), as the set of options it offers
Products(d) == {d[i].PRODUCT.v : i \in 1..Len(d)}

\* The filter with the end of the range left out
FilterRowsOpenEnd(d, selected_products, start_date, end_date) ==
    SelectSeq(d, LAMBDA r : /\ r.PRODUCT.v \in selected_products
                            /\ r.SALE_DATE.v >= start_date
                            /\ r.SALE_DATE.v < end_date)

\* df[(df["PRODUCT"].isin(selected_products)) & (df["SALE_DATE"] >= start_date)
\*    & (df["SALE_DATE"] <= end_date)]
FilterRows(d, selected_products, start_date, end_date) ==
    SelectSeq(d, LAMBDA r : /\ r.PRODUCT.v \in selected_products
                            /\ r.SALE_DATE.v >= start_date
                            /\ r.SALE_DATE.v <= end_date)

\* filtered_df of lines 67-77; pd.DataFrame() has no column and no row
FilteredDf(d, selected_products, date_range) ==
    IF Len(date_range) = 2
    THEN [columns |-> DfColumns,
          rows |-> FilterRows(d, selected_products,
                              Midnight(date_range[1]), Midnight(date_range[2]))]
    ELSE [columns |-> <<>>, rows |-> <<>>]

\* (x["QUANTITY"] * x["UNIT_PRICE"]).sum()
RECURSIVE Revenue(_)
Revenue(rows) ==
    IF rows = <<>> THEN 0
    ELSE Head(rows).QUANTITY.v * Head(rows).UNIT_PRICE.v + Revenue(Tail(rows))

\* x["QUANTITY"].sum()
RECURSIVE Units(_)
Units(rows) ==
    IF rows = <<>> THEN 0 ELSE Head(rows).QUANTITY.v + Units(Tail(rows))

\* x["STOCK_QUANTITY"].sum()
RECURSIVE Stock(_)
Stock(rows) ==
    IF rows = <<>> THEN 0 ELSE Head(rows).STOCK_QUANTITY + Stock(Tail(rows))

\* filtered_df["WEEK"] = filtered_df["SALE_DATE"].dt.isocalendar().week
WithWeek(fdf) ==
    [columns |-> Append(fdf.columns, "WEEK"),
     rows |-> [i \in 1..Len(fdf.rows) |->
                 fdf.rows[i] @@ [WEEK |-> IsoWeek(fdf.rows[i].SALE_DATE.v)]]]

\* filtered_df.to_csv(index=False): the header and one line per row
ToCsv(fdf) ==
    [header |-> fdf.columns,
     lines |-> [i \in 1..Len(fdf.rows) |->
                  [j \in 1..Len(fdf.columns) |-> fdf.rows[i][fdf.columns[j]]]]]

NoView == [path |-> "none"]

\* Lines 66-148: the filtered view and, unless it is empty, the KPIs, the
\* three revenue series and the export
ViewOf(d, selected_products, date_range) ==
    LET filtered_df == FilteredDf(d, selected_products, date_range)
        rows == filtered_df.rows
        weekly == WithWeek(filtered_df)
    IN  IF rows = <<>>
        THEN [path |-> "nodata",
              warned |-> Len(date_range) # 2,
              selected |-> selected_products,
              range |-> date_range,
              filtered_df |-> filtered_df]
        ELSE [path |-> "kpis",
              warned |-> FALSE,
              selected |-> selected_products,
              range |-> date_range,
              total_revenue |-> Revenue(rows),
              total_units |-> Units(rows),
              low_stock |-> {rows[i].PRODUCT.v : i \in
                               {j \in 1..Len(rows) :
                                  rows[j].STOCK_QUANTITY < LowStockThreshold}},
              daily_revenue |->
                  [t \in {rows[i].SALE_DATE.v : i \in 1..Len(rows)} |->
                     Revenue(SelectSeq(rows, LAMBDA r : r.SALE_DATE.v = t))],
              weekly_revenue |->
                  [w \in {weekly.rows[i].WEEK : i \in 1..Len(rows)} |->
                     Revenue(SelectSeq(weekly.rows, LAMBDA r : r.WEEK = w))],
              product_revenue |->
                  [p \in {rows[i].PRODUCT.v : i \in 1..Len(rows)} |->
                     Revenue(SelectSeq(rows, LAMBDA r : r.PRODUCT.v = p))],
              filtered_df |-> weekly,
              csv |-> ToCsv(weekly)]

\* Lines 235-241: stock summed per product over the whole of df, below 10
LowStockDf(d) ==
    LET total == [p \in Products(d) |->
                    Stock(SelectSeq(d, LAMBDA r : r.PRODUCT.v = p))]
    IN  [p \in {q \in Products(d) : total[q] < LowStockThreshold} |-> total[p]]

---------------------------------------------------------------------------
(* Inputs *)

CsvRow(d, p, q, u, k) ==
    [SALE_DATE |-> d, PRODUCT |-> p, QUANTITY |-> q, UNIT_PRICE |-> u,
     STOCK_QUANTITY |-> k]

\* Rows of an uploaded CSV.  The columns QUANTITY, UNIT_PRICE and
\* STOCK_QUANTITY hold numerals or nothing, so read_csv reads them as numbers.
RawRows ==
    { CsvRow("2024-01-01", <<"A">>, <<"1">>, <<"2", ".", "5", "0">>, <<>>),
      CsvRow("2024-01-01", <<"a", " ">>, <<"1">>, <<"2", ".", "5">>, <<"7">>),
      CsvRow("2024-01-01 09:00", <<"A">>, <<"1">>, <<"2", ".", "5">>, <<>>),
      CsvRow("2024-01-01 17:30", <<"A">>, <<"1">>, <<"2", ".", "5">>, <<>>),
      CsvRow("2024-01-02", <<"B">>, <<"2">>, <<"3">>, <<"1", "2">>),
      CsvRow("not a date", <<"B">>, <<"2">>, <<"3">>, <<>>),
      CsvRow("2024-01-02", <<>>, <<"1">>, <<"2", ".", "5">>, <<>>),
      CsvRow("2024-01-02", <<"B">>, <<>>, <<"3">>, <<>>),
      CsvRow("", <<"A">>, <<"1">>, <<>>, <<>>) }

\* The files the sessions of Spec upload, at the same time or one after the
\* other
SharedBatches ==
    LET r1 == CsvRow("2024-01-01", <<"A">>, <<"1">>, <<"2", ".", "5", "0">>, <<>>)
        r2 == CsvRow("2024-01-02", <<"B">>, <<"2">>, <<"3">>, <<"1", "2">>)
    IN  {<<r1>>, <<r2>>, <<r1, r2>>, <<r2, r1>>}

BatchesOf(rows) == UNION {[1..n -> rows] : n \in 1..MaxBatch}

\* pd.to_datetime reads a column in one format: the dates of a file are all
\* plain dates or all dates with a time of day
Timed(text) == text \in {"2024-01-01 09:00", "2024-01-01 17:30", "2024-01-02 09:00"}
Plain(text) == \E d \in 1..5 : text = IsoDate(d)
OneFormat(f) ==
    ~\E i, j \in 1..Len(f) : Plain(f[i].SALE_DATE) /\ Timed(f[j].SALE_DATE)

Batches == {f \in BatchesOf(RawRows) : OneFormat(f)}

SaleRow(id, d, p, q, u, k) ==
    [SALE_ID |-> id, SALE_DATE |-> d, PRODUCT |-> p, QUANTITY |-> q,
     UNIT_PRICE |-> u, STOCK_QUANTITY |-> k]

\* Contents of SALES before the first run: never empty, so that the date
\* filter has a minimum and a maximum to offer.
InitStores ==
    { << SaleRow(1, Val("2024-01-01"), Val(<<"A">>), Val(1), Val(250), 12) >>,
      << SaleRow(1, Val("2024-01-01"), Val(<<"B">>), Val(2), Val(300), 4),
         SaleRow(2, Val("2024-01-02"), Val(<<"A">>), Val(1), Val(250), 20) >>,
      << SaleRow(1, Val("2024-01-01"), Val(<<" ", "a">>), Val(1), Val(250), 5),
         SaleRow(2, Val("2024-01-01"), Val(<<"A">>), Val(1), Val(250), 3),
         SaleRow(3, Val("2024-01-02"), Val(<<"B">>), NaNum, Val(300), 0) >> }

\* What st.date_input returns for a range: a tuple of up to two dates
DateRanges == UNION {[1..n -> Days] : n \in 0..2}

\* Values of the two st.number_input widgets (min_value=1, min_value=0.0)
FormQuantities == {1}
FormPrices == {250}

NoCache == [valid |-> FALSE, df |-> <<>>]
NoMsg == <<>>

\* The natural key of a statement
KeyOf(s) == <<s.SALE_DATE, s.PRODUCT, s.QUANTITY, s.UNIT_PRICE>>

\* The keys the upload loop of s has still to hand to the store
Pending(s) ==
    IF pc[s] = "loop"
    THEN {KeyOf(UploadStatement(new_sales[s][i])) : i \in idx[s]..Len(new_sales[s])}
    ELSE {}

Handed(s) ==
    {KeyOf(UploadStatement(new_sales[s][i])) : i \in 1..Len(new_sales[s])}

---------------------------------------------------------------------------
(* The script, one session at a time, statement by statement at the store *)

Init ==
    /\ store \in InitStores
    /\ store0 = store
    /\ batch0 = <<>>
    /\ cache = NoCache
    /\ pc = [s \in Sessions |-> "idle"]
    /\ df = [s \in Sessions |-> <<>>]
    /\ view = [s \in Sessions |-> NoView]
    /\ file = [s \in Sessions |-> <<>>]
    /\ new_sales = [s \in Sessions |-> <<>>]
    /\ idx = [s \in Sessions |-> 1]
    /\ msg = [s \in Sessions |-> NoMsg]
    /\ low = [s \in Sessions |-> <<>>]
    /\ created = [s \in Sessions |-> {}]
    /\ raced = {}
    /\ ingested = FALSE
    /\ runs = 0

\* The end of the upload block's use of its locals
DropUpload(s) ==
    /\ file' = [file EXCEPT ![s] = <<>>]
    /\ new_sales' = [new_sales EXCEPT ![s] = <<>>]
    /\ idx' = [idx EXCEPT ![s] = 1]
    /\ created' = [created EXCEPT ![s] = {}]
    /\ msg' = [msg EXCEPT ![s] = NoMsg]
    /\ raced' = raced \ Handed(s)

\* min_date, max_date of lines 60-61, as st.date_input shows them
MinDay(d) ==
    CHOOSE x \in {d[i].SALE_DATE.v \div 1440 : i \in 1..Len(d)} :
        \A i \in 1..Len(d) : x <= d[i].SALE_DATE.v \div 1440
MaxDayOf(d) ==
    CHOOSE x \in {d[i].SALE_DATE.v \div 1440 : i \in 1..Len(d)} :
        \A i \in 1..Len(d) : x >= d[i].SALE_DATE.v \div 1440

\* Lines 24-148: an interaction reruns the script; load_data answers from the
\* cache when it holds a result, and else queries SALES and keeps the result.
\* The filters are the widgets' defaults (every product, [min_date, max_date])
\* or, when touched, any selection and any tuple of dates.
View(s, touched) ==
    /\ pc[s] = "idle"
    /\ LET d == IF cache.valid THEN cache.df ELSE LoadData(store)
       IN  /\ cache' = [valid |-> TRUE, df |-> d]
           /\ df' = [df EXCEPT ![s] = d]
           /\ IF touched
              THEN \E selected_products \in SUBSET Products(d),
                      date_range \in DateRanges :
                     view' = [view EXCEPT ![s] =
                                ViewOf(d, selected_products, date_range)]
              ELSE view' = [view EXCEPT ![s] =
                              ViewOf(d, Products(d), <<MinDay(d), MaxDayOf(d)>>)]
    /\ low' = [low EXCEPT ![s] = <<>>]
    /\ runs' = runs + 1
    /\ pc' = [pc EXCEPT ![s] = "form"]
    /\ UNCHANGED <<store, file, new_sales, idx, msg, created, raced,
                   ingested, store0, batch0>>

Run(s) == runs < MaxRuns /\ View(s, FALSE)

Rerun(s) == runs < MaxReruns /\ View(s, FALSE)

RunFiltered(s) == runs < MaxReruns /\ View(s, TRUE)

\* Line 162: submit_sale is False
FormSkip(s) ==
    /\ pc[s] = "form"
    /\ pc' = [pc EXCEPT ![s] = "file"]
    /\ view' = [view EXCEPT ![s] = NoView]
    /\ UNCHANGED <<store, cache, df, file, new_sales, idx, msg, low, created,
                   raced, ingested, store0, batch0, runs>>

\* Lines 155-181: the form is submitted and its MERGE runs
FormSubmit(s) ==
    /\ pc[s] = "form"
    /\ \E sale_date \in Days, product \in Products(df[s]),
          quantity \in FormQuantities, unit_price \in FormPrices :
         LET stmt == FormStatement(sale_date, product, quantity, unit_price)
         IN  store' = Merge(store, stmt)
    /\ pc' = [pc EXCEPT ![s] = "file"]
    /\ view' = [view EXCEPT ![s] = NoView]
    /\ UNCHANGED <<cache, df, file, new_sales, idx, msg, low, created, raced,
                   ingested, store0, batch0, runs>>

\* Lines 163-179: the store fails the statement; the exception ends the run
FormFail(s) ==
    /\ pc[s] = "form"
    /\ pc' = [pc EXCEPT ![s] = "idle"]
    /\ view' = [view EXCEPT ![s] = NoView]
    /\ UNCHANGED <<store, cache, df, file, new_sales, idx, msg, low, created,
                   raced, ingested, store0, batch0, runs>>

\* Line 190: no file is uploaded
NoUpload(s) ==
    /\ pc[s] = "file"
    /\ pc' = [pc EXCEPT ![s] = "low"]
    /\ UNCHANGED <<store, cache, df, view, file, new_sales, idx, msg, low,
                   created, raced, ingested, store0, batch0, runs>>

\* Lines 190-207: the uploaded file f is read, cleaned and deduplicated
UploadStart(s, f) ==
    /\ pc[s] = "file"
    /\ file' = [file EXCEPT ![s] = f]
    /\ new_sales' = [new_sales EXCEPT ![s] = NewSales(f)]
    /\ idx' = [idx EXCEPT ![s] = 1]
    /\ created' = [created EXCEPT ![s] = {}]
    /\ pc' = [pc EXCEPT ![s] = "loop"]
    /\ raced' = raced \cup
         {k \in {KeyOf(UploadStatement(NewSales(f)[i])) : i \in 1..Len(NewSales(f))} :
            /\ ~Matched(store, [SALE_DATE |-> k[1], PRODUCT |-> k[2],
                                QUANTITY |-> k[3], UNIT_PRICE |-> k[4]])
            /\ \E t \in Sessions \ {s} : k \in Pending(t)}
    /\ UNCHANGED <<store, cache, df, view, msg, low, ingested,
                   store0, batch0, runs>>

Upload(s) == \E f \in SharedBatches : UploadStart(s, f)

\* The file stays in the uploader from one run to the next
UploadAgain(s) == UploadStart(s, batch0)

\* Lines 209-226: one turn of the loop, one MERGE
UploadMerge(s) ==
    /\ pc[s] = "loop"
    /\ idx[s] <= Len(new_sales[s])
    /\ LET row == new_sales[s][idx[s]]
           stmt == UploadStatement(row)
       IN  /\ store' = Merge(store, stmt)
           /\ created' = [created EXCEPT ![s] =
                            IF store' # store THEN @ \cup {row.index} ELSE @]
    /\ idx' = [idx EXCEPT ![s] = @ + 1]
    /\ UNCHANGED <<cache, pc, df, view, file, new_sales, msg, low, raced,
                   ingested, store0, batch0, runs>>

\* Lines 210-226: the store fails a statement of the loop; the exception ends
\* the run with the rows before it written and the rest not
UploadFail(s) ==
    /\ pc[s] = "loop"
    /\ idx[s] <= Len(new_sales[s])
    /\ pc' = [pc EXCEPT ![s] = "idle"]
    /\ DropUpload(s)
    /\ UNCHANGED <<store, cache, df, view, low, ingested, store0,
                   batch0, runs>>

\* Line 228: st.success(f"{len(new_sales)} new sales loaded without duplicates!")
UploadDone(s) ==
    /\ pc[s] = "loop"
    /\ idx[s] > Len(new_sales[s])
    /\ msg' = [msg EXCEPT ![s] = <<Len(new_sales[s])>>]
    /\ ingested' = TRUE
    /\ pc' = [pc EXCEPT ![s] = "low"]
    /\ UNCHANGED <<store, cache, df, view, file, new_sales, idx, low, created,
                   raced, store0, batch0, runs>>

\* Lines 233-246: the low-stock list; the run ends
LowStock(s) ==
    /\ pc[s] = "low"
    /\ low' = [low EXCEPT ![s] = LowStockDf(df[s])]
    /\ pc' = [pc EXCEPT ![s] = "idle"]
    /\ DropUpload(s)
    /\ UNCHANGED <<store, cache, df, view, ingested, store0, batch0, runs>>

\* st.cache_data keeps its entries for the life of the server process: a
\* restart of the process empties it
ClearCache ==
    /\ cache.valid
    /\ \A s \in Sessions : pc[s] = "idle"
    /\ cache' = NoCache
    /\ UNCHANGED <<store, pc, df, view, file, new_sales, idx, msg, low, created,
                   raced, ingested, store0, batch0, runs>>

Next ==
    \/ \E s \in Sessions :
         \/ Run(s)
         \/ FormSkip(s)
         \/ FormSubmit(s)
         \/ FormFail(s)
         \/ NoUpload(s)
         \/ Upload(s)
         \/ UploadMerge(s)
         \/ UploadFail(s)
         \/ UploadDone(s)
         \/ LowStock(s)
    \/ ClearCache

Spec == Init /\ [][Next]_vars

\* One session uploads one file and reruns the script with the file left in
\* the uploader, over any table and any file, with any filter.
InitIngest ==
    /\ store \in InitStores
    /\ store0 = store
    /\ batch0 \in Batches
    /\ cache = NoCache
    /\ pc = [s \in Sessions |-> "idle"]
    /\ df = [s \in Sessions |-> <<>>]
    /\ view = [s \in Sessions |-> NoView]
    /\ file = [s \in Sessions |-> <<>>]
    /\ new_sales = [s \in Sessions |-> <<>>]
    /\ idx = [s \in Sessions |-> 1]
    /\ msg = [s \in Sessions |-> NoMsg]
    /\ low = [s \in Sessions |-> <<>>]
    /\ created = [s \in Sessions |-> {}]
    /\ raced = {}
    /\ ingested = FALSE
    /\ runs = 0

NextIngest ==
    \/ Rerun("s1")
    \/ FormSkip("s1")
    \/ UploadAgain("s1")
    \/ UploadMerge("s1")
    \/ UploadFail("s1")
    \/ UploadDone("s1")
    \/ LowStock("s1")
    \/ ClearCache

SpecIngest == InitIngest /\ [][NextIngest]_vars

\* One session works the filters and the form, over any table.
NextView ==
    \/ RunFiltered("s1")
    \/ FormSkip("s1")
    \/ FormSubmit("s1")
    \/ FormFail("s1")
    \/ NoUpload("s1")
    \/ LowStock("s1")
    \/ ClearCache

SpecView == Init /\ [][NextView]_vars

---------------------------------------------------------------------------
(* Properties *)

\* The natural key (date, product, quantity, unit_price) of a row of SALES
HasKey(r) ==
    ~r.SALE_DATE.na /\ ~r.PRODUCT.na /\ ~r.QUANTITY.na /\ ~r.UNIT_PRICE.na
RowKey(r) == <<r.SALE_DATE.v, r.PRODUCT.v, r.QUANTITY.v, r.UNIT_PRICE.v>>
KeysOf(st) == {RowKey(st[i]) : i \in {j \in 1..Len(st) : HasKey(st[j])}}
CountKey(st, k) ==
    Cardinality({i \in 1..Len(st) : HasKey(st[i]) /\ RowKey(st[i]) = k})

\* The natural keys a complete run of the upload loop hands to the store
BatchKeys(f) ==
    {KeyOf(UploadStatement(NewSales(f)[i])) : i \in 1..Len(NewSales(f))}

\* C1: ingestion is idempotent at the natural-key level.  However often the
\* same file is ingested again, and whether or not an earlier run stopped
\* part-way on a store failure, no key of the file is ever stored more often
\* than it was at the start (or once, if it was absent), and from the first
\* complete run on the table is the one a single complete run leaves: the
\* rows of the start, followed by one row for every key of the file that the
\* start did not have.
C1_Idempotent ==
    /\ \A k \in BatchKeys(batch0) :
         CountKey(store, k) <= (IF k \in KeysOf(store0) THEN CountKey(store0, k) ELSE 1)
    /\ ingested =>
         /\ Len(store) = Len(store0) + Cardinality(BatchKeys(batch0) \ KeysOf(store0))
         /\ SubSeq(store, 1, Len(store0)) = store0
         /\ \A k \in BatchKeys(batch0) :
              CountKey(store, k) = (IF k \in KeysOf(store0) THEN CountKey(store0, k) ELSE 1)
         /\ \A i \in (Len(store0) + 1)..Len(store) :
              HasKey(store[i]) /\ RowKey(store[i]) \in BatchKeys(batch0) \ KeysOf(store0)

\* The second run of a two-row file completes after the first stopped
\* part-way with one row written.
C1_Witness ==
    /\ runs = 2 /\ ingested /\ pc["s1"] = "low"
    /\ Len(store) = Len(store0) + 2
    /\ Cardinality(created["s1"]) = 1

\* A raw row of the file with its date parseable and its product, quantity
\* and unit price present
ValidRaw(r) ==
    /\ ~ParseDate(IF r.SALE_DATE = "" THEN NaStr ELSE Val(r.SALE_DATE)).na
    /\ r.PRODUCT # <<>>
    /\ r.QUANTITY # <<>>
    /\ r.UNIT_PRICE # <<>>

\* C2: invalid records are never persisted: every row the upload inserts
\* comes from a raw row whose date, product, quantity and unit price are all
\* present and parseable.
C2_InvalidNeverPersisted ==
    \A s \in Sessions : \A i \in created[s] : ValidRaw(file[s][i + 1])

\* C3: the records handed to the store hold each natural key at most once,
\* each is the first raw row of its key among the valid rows, and they come
\* in the order of the file.
C3_DedupStableComplete ==
    \A s \in Sessions :
      LET ns == new_sales[s]
          key(i) == KeyOf(UploadStatement(ns[i]))
          all == Cleaned(file[s])
      IN  pc[s] \in {"loop", "low"} =>
            /\ \A i, j \in 1..Len(ns) : i < j => key(i) # key(j)
            /\ \A i, j \in 1..Len(ns) : i < j => ns[i].index < ns[j].index
            /\ \A i \in 1..Len(ns) : \A m \in 1..Len(all) :
                 KeyOf(UploadStatement(all[m])) = key(i) => all[m].index >= ns[i].index
            /\ \A m \in 1..Len(all) : \E i \in 1..Len(ns) :
                 key(i) = KeyOf(UploadStatement(all[m]))

\* The rows of SALES a MERGE of this key inserted
RowsOfKey(k) == {i \in 1..Len(store) : HasKey(store[i]) /\ RowKey(store[i]) = k}

SuppliedStock(r) ==
    IF r.STOCK_QUANTITY = <<>> THEN 0 ELSE DigitsVal(r.STOCK_QUANTITY)

\* C4, as stated: a newly inserted record has stock 0 unless the upload
\* supplies a non-zero stock, and then it has the supplied stock.
C4_SuppliedStockPersisted ==
    \A s \in Sessions : \A i \in 1..Len(new_sales[s]) :
       new_sales[s][i].index \in created[s] =>
          \A j \in RowsOfKey(KeyOf(UploadStatement(new_sales[s][i]))) :
             store[j].STOCK_QUANTITY = SuppliedStock(file[s][new_sales[s][i].index + 1])

\* C4, amended: every record a manual entry or an upload inserts is persisted
\* with stock_quantity = 0, whatever STOCK_QUANTITY the uploaded row carries.
C4_StockZero ==
    /\ \A i \in (Len(store0) + 1)..Len(store) : store[i].STOCK_QUANTITY = 0
    /\ \A s \in Sessions : \A i \in 1..Len(new_sales[s]) :
         new_sales[s][i].index \in created[s] =>
            \A j \in RowsOfKey(KeyOf(UploadStatement(new_sales[s][i]))) :
               store[j].STOCK_QUANTITY = 0

\* An upload has inserted a row whose CSV line carries a non-zero stock.
C4_Witness ==
    \E s \in Sessions : \E i \in created[s] : SuppliedStock(file[s][i + 1]) > 0

\* C5: ingestion only adds rows: every step leaves every row of SALES in
\* place with all its fields.
C5_OnlyAdds ==
    [][\A i \in 1..Len(store) : i <= Len(store') /\ store'[i] = store[i]]_vars

\* The loop has handed the store a record whose key matches a row of the
\* start with non-zero stock; the row is as it was.
C5_Witness ==
    \E s \in Sessions :
       /\ pc[s] = "loop" /\ idx[s] = 2 /\ created[s] = {}
       /\ \E i \in 1..Len(store0) :
            /\ Matches(store[i], UploadStatement(new_sales[s][1]))
            /\ store[i] = store0[i]
            /\ store[i].STOCK_QUANTITY # 0

\* C6: with two bounds the filtered view is exactly the rows of df whose
\* product is selected and whose date lies in [start, end], both inclusive;
\* with any other number of bounds it is empty and the run takes the
\* "no data" path.
C6_FilteredView ==
    \A s \in Sessions :
      pc[s] = "form" =>
        LET v == view[s]
            rows == v.filtered_df.rows
            want == {i \in 1..Len(df[s]) :
                       /\ df[s][i].PRODUCT.v \in v.selected
                       /\ df[s][i].SALE_DATE.v >= Midnight(v.range[1])
                       /\ df[s][i].SALE_DATE.v <= Midnight(v.range[2])}
        IN  IF Len(v.range) = 2
            THEN /\ Len(rows) = Cardinality(want)
                 /\ \A i \in want : \E j \in 1..Len(rows) :
                       \A c \in {DfColumns[n] : n \in 1..Len(DfColumns)} :
                          rows[j][c] = df[s][i][c]
                 /\ \A j \in 1..Len(rows) : \E i \in want :
                       rows[j].SALE_ID = df[s][i].SALE_ID
                 /\ v.path = (IF want = {} THEN "nodata" ELSE "kpis")
            ELSE rows = <<>> /\ v.path = "nodata" /\ v.warned

\* A range of one day keeps the rows of that day and drops another row.
C6_Witness ==
    \E s \in Sessions :
       /\ pc[s] = "form" /\ view[s].path = "kpis"
       /\ Len(view[s].range) = 2 /\ view[s].range[1] = view[s].range[2]
       /\ Len(view[s].filtered_df.rows) < Len(df[s])
       /\ view[s].selected = Products(df[s])

\* C7: the aggregations leave the filtered view as it was, and the export
\* has the original field names as its header and no other.
C7_AggregationsPure ==
    \A s \in Sessions :
      (pc[s] = "form" /\ view[s].path = "kpis") =>
         /\ view[s].filtered_df.columns = DfColumns
         /\ view[s].csv.header = DfColumns

\* C8: the count of the upload's message is the number of rows the upload
\* newly inserted.
C8_AcceptedCount ==
    \A s \in Sessions : msg[s] # NoMsg => msg[s][1] = Cardinality(created[s])

\* Both sessions have run their loops to the end over a key that was absent
\* from SALES while both had it pending.
BothDone(k) == \A s \in Sessions : pc[s] = "low" /\ k \in Handed(s)

\* C9, as stated: of two concurrent ingestions of a record absent from the
\* store both find it absent and both insert, leaving two rows of one key.
C9_DoubleInsert ==
    \A k \in raced : BothDone(k) => CountKey(store, k) = 2

\* C9, amended: of two concurrent ingestions of a record absent from the
\* store exactly one inserts, in every interleaving: the check and the insert
\* are one MERGE statement, and SALES never holds the key twice.
C9_SingleInsert ==
    \A k \in raced :
       /\ CountKey(store, k) <= 1
       /\ (\E s \in Sessions : k \in Handed(s) \ Pending(s)) => CountKey(store, k) = 1

C9_Witness == \E k \in raced : BothDone(k)

\* The natural keys of a data frame of load_data
DfKeys(d) ==
    {<<DateOf(d[i].SALE_DATE.v), d[i].PRODUCT.v, d[i].QUANTITY.v, d[i].UNIT_PRICE.v>> :
        i \in 1..Len(d)}

\* C10: the run after a write that inserted a record loads a dataset that
\* holds the record: every record the one session has inserted in its
\* earlier runs is in the df of its present run.
C10_ReadAfterWrite ==
    pc["s1"] = "form" =>
       \A i \in (Len(store0) + 1)..Len(store) : RowKey(store[i]) \in DfKeys(df["s1"])

=============================================================================
